---- MODULE Spec2Model ----
(***************************************************************************)
(* Threshold-voltage extraction of rilla-core.                             *)
(*                                                                         *)
(*   src/src/engines/analysis.py   VthExtractor (the extractor the engine  *)
(*                                 imports: tried-name list, exceptions    *)
(*                                 propagate)                              *)
(*   src/src/analysis.py           VthExtractor (the earlier revision:     *)
(*                                 fixed current-trace name, failures are  *)
(*                                 caught and None is returned)            *)
(*                                                                         *)
(* Numbers.  Temperatures are whole degrees Celsius.  Currents are whole   *)
(* multiples of 0.5 mA (1e-3 A is 2), voltages are whole volts, and an     *)
(* interpolated threshold is an exact fraction <<num, den>> in lowest      *)
(* terms.  The code computes in IEEE doubles; rounding is not modelled.    *)
(*                                                                         *)
(* Text.  A trace name is a sequence of one-character strings, so that     *)
(* str.lower() is computed character by character.                         *)
(*                                                                         *)
(* Inputs.  The code fixes the sweep values (np.arange(-55, 175.1, 10))    *)
(* and the target temperature (25) inside extract_vth_at_25c.  They are    *)
(* the variables temps and target_temp.  Spec is the program: it keeps     *)
(* the code's values and draws the raw file and the target current.        *)
(* SpecSweep draws temps and target_temp from sets that hold the code's    *)
(* values, so that statements over every sweep-value sequence can be       *)
(* checked against the code's selection statement.                         *)
(*                                                                         *)
(* The reader.  RawRead, its traces and np.interp are PyLTSpice's and      *)
(* numpy's.  An error the reader raises is identified by the statement     *)
(* that raised it; whether the message of get_trace's error lists the      *)
(* file's traces is left open (lib_lists_traces).                          *)
(*                                                                         *)
(* The engine and the window.                                              *)
(*                                                                         *)
(*   src/src/engines/pyltspice_engine.py   PyLTSpiceEngine                 *)
(*   src/src/main.py                       Worker, RillaMainWindow         *)
(*                                                                         *)
(* A Python dict is a record with a field keys, the set of keys present.   *)
(* A JSON text is the document it encodes, tagged as JSON; str(e) is the   *)
(* message's text with the trace names it lists.  A worker and its thread  *)
(* are one record whose pc is the statement run_simulation_task is at;     *)
(* emitted is the log of the signals it has emitted, and main_queue holds  *)
(* the calls of connected slots that wait for the main thread.  Slots      *)
(* that change the status bar only are not queued.                         *)
(*                                                                         *)
(* SpecRepeat calls the extractor twice on one object.  SpecEngine runs    *)
(* run_vth_simulation over the outcomes of the simulation.  SpecGui is     *)
(* the window with its workers, SpecGuiFair adds that a started thread     *)
(* and the main event loop keep running.  SpecSummary applies              *)
(* display_final_summary to result lists.                                  *)
(***************************************************************************)
EXTENDS Integers, Sequences, FiniteSets, TLC

VARIABLES
    raw,               \* self.ltr: the parsed raw file, a sequence of traces
    lib_lists_traces,  \* whether RawRead.get_trace's own error lists the traces
    temps,             \* the sweep values
    target_temp,       \* the temperature whose step is analysed
    target_current,    \* target_current of extract_vth_at_25c
    call,              \* engines/analysis.py: the call's locals and outcome
    legacy_call,       \* analysis.py: the call's locals and outcome
    second_call,       \* engines/analysis.py: a second call on the same object
    engine_model,      \* model_info of a call of run_vth_simulation
    engine_sim,        \* how far that call's simulation gets
    engine_out,        \* what that call ends with
    config_models,     \* main.py: self.config_data['models'], the library
    comparison_models, \* self.comparison_models
    run_button_enabled,\* self.run_button.isEnabled()
    running_sims,      \* self.running_sims
    comparison_results,\* self.comparison_results
    active_workers,    \* self.active_workers, each worker with its thread
    main_queue,        \* slot calls queued for the main thread, in order
    results_panel,     \* what self.results_panel shows
    window             \* "open", "closing" (inside closeEvent) or "closed"

ext_vars ==
    <<raw, lib_lists_traces, temps, target_temp, target_current, call,
      legacy_call, second_call>>

eng_vars == <<engine_model, engine_sim, engine_out>>

gui_vars ==
    <<config_models, comparison_models, run_button_enabled, running_sims,
      comparison_results, active_workers, main_queue, results_panel, window>>

vars == <<ext_vars, eng_vars, gui_vars>>

-----------------------------------------------------------------------------
(* Bounds of the input sets *)

MaxTraces == 3
MaxSweepLen == 3
MaxSamples == 3
MaxResults == 2

-----------------------------------------------------------------------------
(* Program constants *)

SweepStart == -55
SweepStopTenths == 1751
LegacySweepStopTenths == 1760
SweepStep == 10
TargetTemp == 25
DefaultTargetCurrent == 2
MaxCompared == 2
Decimals == 4

-----------------------------------------------------------------------------
(* Text: str.lower() *)

UpperLetters ==
    <<"A","B","C","D","E","F","G","H","I","J","K","L","M",
      "N","O","P","Q","R","S","T","U","V","W","X","Y","Z">>

LowerLetters ==
    <<"a","b","c","d","e","f","g","h","i","j","k","l","m",
      "n","o","p","q","r","s","t","u","v","w","x","y","z">>

LowerChar(c) ==
    IF \E k \in DOMAIN UpperLetters : UpperLetters[k] = c
    THEN LowerLetters[CHOOSE k \in DOMAIN UpperLetters : UpperLetters[k] = c]
    ELSE c

lower(s) == [i \in DOMAIN s |-> LowerChar(s[i])]

-----------------------------------------------------------------------------
(* Trace names *)

V_G_D == <<"V","(","v","_","g","_","d",")">>

LEGACY_ID_NAME == <<"I","x","(","x","u","1",":","D",")">>

possible_names ==
    << <<"I","x","(","x","u","1",":","D",")">>,
       <<"I","x","(","x","u","1",":","D","R","A","I","N",")">>,
       <<"I","d","(","X","U","1",")">>,
       <<"I","d","(","M","1",")">> >>

-----------------------------------------------------------------------------
(* Numbers *)

Abs(n) == IF n < 0 THEN -n ELSE n

RECURSIVE GCD(_, _)
GCD(a, b) == IF b = 0 THEN a ELSE GCD(b, a % b)

\* The fraction n/d (d > 0) in lowest terms.
Frac(n, d) ==
    LET g == GCD(Abs(n), d) IN <<n \div g, d \div g>>

\* np.arange(start, stop, step) for a whole start and step and a stop given
\* in tenths: ceil((stop - start) / step) values start, start + step, ...
arange(start, stopTenths, step) ==
    LET n == (stopTenths - 10 * start + 10 * step - 1) \div (10 * step)
    IN  [k \in 1..n |-> start + (k - 1) * step]

-----------------------------------------------------------------------------
(* RawRead, the PyLTSpice reader behind self.ltr.  A trace is a record     *)
(* [name, waves], waves holding one waveform per sweep step.               *)

get_trace_names(r) == [p \in DOMAIN r |-> r[p].name]

HasTrace(r, name) == \E p \in DOMAIN r : r[p].name = name

\* RawRead.get_trace(name): the first trace of that name.  Names that differ
\* from the requested one only in case are not among the inputs of the
\* lookups below, so the reader's own case rule does not matter here.
get_trace(r, name) ==
    r[CHOOSE p \in DOMAIN r :
        /\ r[p].name = name
        /\ \A q \in 1..(p - 1) : r[q].name # name]

\* Whether trace.get_wave(step) yields a waveform: step is a 0-based index.
HasWave(trace, step) == step + 1 \in DOMAIN trace.waves

\* get_wave() with the step left at its default, the first.
get_wave_step0(trace, step) == trace.waves[1]

get_wave(trace, step) == trace.waves[step + 1]

\* .astype(float) and .tolist(): every sample keeps its value and place.
astype_float(wave) == [i \in DOMAIN wave |-> wave[i]]

-----------------------------------------------------------------------------
(* Nearest-step selection: (np.abs(temps - target)).argmin()              *)

abs_diff_nosign(ts, t) == [i \in DOMAIN ts |-> ts[i] - t]

abs_diff(ts, t) == [i \in DOMAIN ts |-> Abs(ts[i] - t)]

\* The scan of argmin with ties going to the later index.
RECURSIVE argmin_last_scan(_, _, _)
argmin_last_scan(a, i, best) ==
    IF i > Len(a) THEN best
    ELSE argmin_last_scan(a, i + 1, IF a[i] <= a[best] THEN i ELSE best)

\* numpy's argmin scans left to right and keeps the first smallest entry.
RECURSIVE argmin_scan(_, _, _)
argmin_scan(a, i, best) ==
    IF i > Len(a) THEN best
    ELSE argmin_scan(a, i + 1, IF a[i] < a[best] THEN i ELSE best)

\* a.argmin() of a non-empty array, as a 0-based index.
argmin(a) == argmin_scan(a, 2, 1) - 1

\* try: step_idx = (np.abs(temps - target)).argmin()
\* except (ValueError, IndexError): step_idx = 0
\* argmin of an empty array raises ValueError.
select_step(ts, t) ==
    IF Len(ts) = 0 THEN 0 ELSE argmin(abs_diff(ts, t))

-----------------------------------------------------------------------------
(* Drain-current trace resolution *)

\* for trace in all_traces: if trace.lower() == name.lower(): the position
\* of the first such trace, 0 when there is none.
FirstMatch(all_traces, name) ==
    IF \E p \in DOMAIN all_traces : lower(all_traces[p]) = lower(name)
    THEN CHOOSE p \in DOMAIN all_traces :
            /\ lower(all_traces[p]) = lower(name)
            /\ \A q \in 1..(p - 1) : lower(all_traces[q]) # lower(name)
    ELSE 0

\* for name in possible_names, from candidate c on: the name of the trace
\* found, <<>> when the loop ends without a match.
RECURSIVE find_from(_, _)
find_from(all_traces, c) ==
    IF c > Len(possible_names) THEN <<>>
    ELSE LET p == FirstMatch(all_traces, possible_names[c])
         IN  IF p # 0 THEN all_traces[p] ELSE find_from(all_traces, c + 1)

\* The loops nested the other way: the first trace of the file that matches
\* any candidate.
_find_by_file_order(r) ==
    LET all_traces == get_trace_names(r)
        hit(p) == \E c \in DOMAIN possible_names :
                     lower(all_traces[p]) = lower(possible_names[c])
    IN  IF \E p \in DOMAIN all_traces : hit(p)
        THEN all_traces[CHOOSE p \in DOMAIN all_traces :
                 hit(p) /\ \A q \in 1..(p - 1) : ~hit(q)]
        ELSE <<>>

\* The name of the trace _find_drain_current_trace returns (it returns
\* self.ltr.get_trace(trace)), <<>> when it raises RuntimeError.
_find_drain_current_trace(r) == find_from(get_trace_names(r), 1)

-----------------------------------------------------------------------------
(* np.interp(x, xp, fp) for a non-empty, non-decreasing xp *)

\* The index the binary search ends at: the last j with xp[j] <= x.
SearchIndex(x, xp) ==
    CHOOSE j \in DOMAIN xp :
        /\ xp[j] <= x
        /\ \A k \in DOMAIN xp : xp[k] <= x => k <= j

\* The lookup without clamping: outside xp's range the nearest segment is
\* extended.
interp_extrapolating(x, xp, fp) ==
    LET n == Len(xp)
        j == IF x < xp[1] THEN 1
             ELSE IF x >= xp[n] THEN (IF n = 1 THEN 1 ELSE n - 1)
             ELSE SearchIndex(x, xp)
    IN  IF n = 1 \/ xp[j + 1] = xp[j] THEN Frac(fp[j], 1)
        ELSE Frac(fp[j] * (xp[j + 1] - xp[j]) + (fp[j + 1] - fp[j]) * (x - xp[j]),
                  xp[j + 1] - xp[j])

interp(x, xp, fp) ==
    LET n == Len(xp) IN
    IF x > xp[n] THEN Frac(fp[n], 1)
    ELSE IF x < xp[1] THEN Frac(fp[1], 1)
    ELSE IF n = 1 THEN Frac(fp[1], 1)
    ELSE LET j == SearchIndex(x, xp) IN
         IF j = n THEN Frac(fp[n], 1)
         ELSE IF xp[j] = x THEN Frac(fp[j], 1)
         ELSE \* slope * (x - xp[j]) + fp[j]
              Frac(fp[j] * (xp[j + 1] - xp[j]) + (fp[j + 1] - fp[j]) * (x - xp[j]),
                   xp[j + 1] - xp[j])

-----------------------------------------------------------------------------
(* The outcome of a call.  kind is "pending" before the call, "return" or  *)
(* "raise" after it.  The locals step_idx and id_trace (the name of the    *)
(* resolved current trace) are kept for inspection.  A raise names the     *)
(* statement that raised (site), the exception class where the source      *)
(* names it (exc), the trace asked for and the trace names the message     *)
(* lists.  A return carries the threshold and the raw data, or is_none     *)
(* for a returned None.                                                    *)

NoFrac == <<0, 1>>

Pending ==
    [kind |-> "pending", step_idx |-> -1, id_trace |-> <<>>,
     site |-> "", exc |-> "", requested |-> <<>>, available |-> <<>>,
     is_none |-> FALSE, vth |-> NoFrac, vgs_volts |-> <<>>, id_amps |-> <<>>]

Raise(step, idname, where, cls, req, avail) ==
    [Pending EXCEPT !.kind = "raise", !.step_idx = step, !.id_trace = idname,
                    !.site = where, !.exc = cls, !.requested = req,
                    !.available = avail]

Return(step, idname, v, vgs, ids) ==
    [Pending EXCEPT !.kind = "return", !.step_idx = step, !.id_trace = idname,
                    !.vth = v, !.vgs_volts = vgs, !.id_amps = ids]

ReturnNone(step) ==
    [Pending EXCEPT !.kind = "return", !.step_idx = step, !.is_none = TRUE]

\* The error RawRead.get_trace raises for a name the file does not hold.
\* Whether its message lists the file's traces is the reader's choice.
GetTraceError(r, lists, step, name) ==
    Raise(step, <<>>, "get_trace", "", <<name>>,
          IF lists THEN get_trace_names(r) ELSE <<>>)

-----------------------------------------------------------------------------
(* engines/analysis.py: VthExtractor.extract_vth_at_25c *)

\* No candidate matched, and the message names only the names tried.
NoDrainTraceError_tried_only(r, step_idx) ==
    Raise(step_idx, <<>>, "_find_drain_current_trace", "RuntimeError",
          possible_names, <<>>)

\* raise RuntimeError(f"Could not find a valid drain current trace.
\* Available traces: {all_traces}")
NoDrainTraceError(r, step_idx) ==
    Raise(step_idx, <<>>, "_find_drain_current_trace", "RuntimeError",
          <<>>, get_trace_names(r))

\* A failed get_wave answered with None, as the earlier revision did.
WaveError_none(step_idx, found) == ReturnNone(step_idx)

\* get_wave(step_idx) raises in the reader; nothing here catches it.
WaveError(step_idx, found) ==
    Raise(step_idx, found, "get_wave", "", <<>>, <<>>)

\* Both waveforms, np.interp and the returned dictionary.
ExtractWaves(r, step_idx, found, tc) ==
    LET vgs_trace == get_trace(r, V_G_D)
        id_trace == get_trace(r, found)
    IN
    IF ~HasWave(vgs_trace, step_idx) \/ ~HasWave(id_trace, step_idx)
    THEN WaveError(step_idx, found)
    ELSE
    LET vgs_wave == astype_float(get_wave(vgs_trace, step_idx))
        id_wave == astype_float(get_wave(id_trace, step_idx))
        vth == interp(tc, id_wave, vgs_wave)
    IN  Return(step_idx, found, vth, vgs_wave, id_wave)

\* The lookups in the other order: the current trace first.
ExtractAtStep_current_first(r, lists, step_idx, tc) ==
    IF _find_drain_current_trace(r) = <<>>
    THEN NoDrainTraceError(r, step_idx)
    ELSE IF ~HasTrace(r, V_G_D)
    THEN GetTraceError(r, lists, step_idx, V_G_D)
    ELSE ExtractWaves(r, step_idx, _find_drain_current_trace(r), tc)

\* The statements after the print: the voltage trace is looked up, then the
\* current trace is resolved, then the waveforms are read.
ExtractAtStep(r, lists, step_idx, tc) ==
    IF ~HasTrace(r, V_G_D)
    THEN GetTraceError(r, lists, step_idx, V_G_D)
    ELSE IF _find_drain_current_trace(r) = <<>>
    THEN NoDrainTraceError(r, step_idx)
    ELSE ExtractWaves(r, step_idx, _find_drain_current_trace(r), tc)

Extract(r, lists, ts, tt, tc) ==
    LET step_idx == select_step(ts, tt) IN
    IF step_idx >= Len(ts)
    THEN \* print(f"... {temps[step_idx]}"): the index is out of bounds
         Raise(step_idx, <<>>, "print", "IndexError", <<>>, <<>>)
    ELSE ExtractAtStep(r, lists, step_idx, tc)

\* The current waveform scaled where the reader holds it (an in-place
\* id_wave *= 2 on the array get_wave returned) instead of on a copy.
ltr_after_call_scaled_in_place(r, c) ==
    IF c.kind # "return" THEN r
    ELSE [p \in DOMAIN r |->
            IF r[p].name # c.id_trace THEN r[p]
            ELSE [r[p] EXCEPT !.waves[c.step_idx + 1] =
                     [i \in DOMAIN @ |-> 2 * @[i]]]]

\* self.ltr after a call with outcome c.  The call only reads the reader:
\* .astype(float) copies each waveform, .tolist() copies again, and no
\* statement assigns to self.ltr, to a trace or to a waveform.
ltr_after_call(r, c) == r

-----------------------------------------------------------------------------
(* analysis.py: VthExtractor.extract_vth_at_25c, the earlier revision *)

\* The body of the try block; any exception in it is caught and None is
\* returned.
LegacyExtractAtStep(r, step_idx, tc) ==
    IF ~HasTrace(r, V_G_D) \/ ~HasTrace(r, LEGACY_ID_NAME)
    THEN ReturnNone(step_idx)
    ELSE
    LET vgs_trace == get_trace(r, V_G_D)
        id_trace == get_trace(r, LEGACY_ID_NAME)
    IN
    IF ~HasWave(vgs_trace, step_idx) \/ ~HasWave(id_trace, step_idx)
    THEN ReturnNone(step_idx)
    ELSE
    LET vgs_wave == astype_float(get_wave(vgs_trace, step_idx))
        id_wave == astype_float(get_wave(id_trace, step_idx))
    IN  Return(step_idx, LEGACY_ID_NAME, interp(tc, id_wave, vgs_wave),
               <<>>, <<>>)

LegacyExtract(r, ts, tt, tc) ==
    LET step_idx == select_step(ts, tt) IN
    IF step_idx >= Len(ts)
    THEN Raise(step_idx, <<>>, "print", "IndexError", <<>>, <<>>)
    ELSE LegacyExtractAtStep(r, step_idx, tc)

-----------------------------------------------------------------------------
(* engines/pyltspice_engine.py: PyLTSpiceEngine.run_vth_simulation         *)
(*                                                                         *)
(* A Python dict is a record with the field keys, the set of keys it       *)
(* holds; the value of a key it does not hold is never read.  str(e), the  *)
(* message of an exception, is a record: its text (for an error the        *)
(* library raises, the name of the call that raised) and the trace names   *)
(* it lists.                                                               *)

NoMessage == [text |-> "", names |-> <<>>]

NoResults == [keys |-> {}, vth_at_25c_volts |-> NoFrac]

NoRawData == [keys |-> {}, vgs_volts |-> <<>>, id_amps |-> <<>>]

\* d.get(key), d[key]: whether the dict holds the key.
Has(d, key) == key \in d.keys

\* str(e) of the exception a failed extraction raised.
str_e(c) == [text |-> c.site, names |-> c.available]

\* The dictionary extract_vth_at_25c returns.
result_dict(c) ==
    [results |-> [keys |-> {"vth_at_25c_volts"}, vth_at_25c_volts |-> c.vth],
     raw_data |-> [keys |-> {"vgs_volts", "id_amps"},
                   vgs_volts |-> c.vgs_volts, id_amps |-> c.id_amps]]

\* json.dumps(d, indent=4) and json.loads(s): the text of one JSON document
\* and the dict read back from it.  A str, a float and a list of floats are
\* read back as they were written; a text that is no JSON document makes
\* json.loads raise JSONDecodeError.
json_dumps(d) == [json |-> TRUE, doc |-> d]

IsJson(s) == s.json

json_loads(s) == s.doc

\* output_data, lines 79-85.
SuccessData(model_info, rd) ==
    [keys |-> {"status", "test_type", "model_name", "results",
               "raw_data_vth_curve"},
     status |-> "success", test_type |-> "vth_analysis",
     model_name |-> model_info.name,
     results |-> rd.results, raw_data_vth_curve |-> rd.raw_data,
     error_message |-> NoMessage]

\* error_data, lines 93-97 (and main.py lines 60-64).
ErrorData(model_info, msg) ==
    [keys |-> {"status", "model_name", "error_message"},
     status |-> "error", test_type |-> "",
     model_name |-> model_info.name,
     results |-> NoResults, raw_data_vth_curve |-> NoRawData,
     error_message |-> msg]

\* What a call of the engine ends with: a returned JSON text, or an
\* exception that leaves run_vth_simulation.
EngineReturn(text) == [kind |-> "return", text |-> text, message |-> NoMessage]

NoText == [json |-> FALSE, doc |-> ErrorData([name |-> "", path |-> ""], NoMessage)]

EngineRaise(msg) == [kind |-> "raise", text |-> NoText, message |-> msg]

EnginePending == [kind |-> "pending", text |-> NoText, message |-> NoMessage]

\* How far the simulation gets, the first step that fails:
\*   "mkdir_raises"           output_dir.mkdir raises (line 46, before try)
\*   "create_netlist_raises"  runner.create_netlist raises (line 54)
\*   "no_netlist"             it returns no path (lines 55-56)
\*   "editor_raises"          SpiceEditor or an edit of the netlist raises
\*   "run_now_raises"         runner.run_now raises (line 68)
\*   "no_raw_file"            it returns no raw file (lines 70-72)
\*   "raw_read_raises"        VthExtractor(raw_file) cannot read the file
\*   "raw_file"               the raw file is read; the extraction runs
SimOutcomes ==
    {"mkdir_raises", "create_netlist_raises", "no_netlist", "editor_raises",
     "run_now_raises", "no_raw_file", "raw_read_raises", "raw_file"}

\* The message of the exception raised inside the try block before the
\* extraction, for a simulation that does not get to a raw file.
SimFailure(sim) ==
    IF sim = "no_netlist"
    THEN [text |-> "Failed to create .net file from .asc.", names |-> <<>>]
    ELSE IF sim = "no_raw_file"
    THEN [text |-> "Simulation failed to produce a .raw file.", names |-> <<>>]
    ELSE [text |-> sim, names |-> <<>>]

\* The except clause left out: a failed extraction leaves the engine.
ExtractionReport_uncaught(model_info, c) ==
    IF c.kind = "raise"
    THEN EngineRaise(str_e(c))
    ELSE EngineReturn(json_dumps(SuccessData(model_info, result_dict(c))))

\* Lines 75-98 for the outcome c of extract_vth_at_25c: the exception is
\* caught by except Exception and reported, a result is wrapped.
ExtractionReport(model_info, c) ==
    IF c.kind = "raise"
    THEN EngineReturn(json_dumps(ErrorData(model_info, str_e(c))))
    ELSE EngineReturn(json_dumps(SuccessData(model_info, result_dict(c))))

\* run_vth_simulation(model_info) for a simulation that gets as far as sim
\* and, when it gets to a raw file, produces the raw file r.
run_vth_simulation(model_info, sim, r, lists) ==
    IF sim = "mkdir_raises"
    THEN EngineRaise([text |-> "mkdir", names |-> <<>>])
    ELSE IF sim # "raw_file"
    THEN EngineReturn(json_dumps(ErrorData(model_info, SimFailure(sim))))
    ELSE ExtractionReport(model_info,
             Extract(r, lists, arange(SweepStart, SweepStopTenths, SweepStep),
                     TargetTemp, DefaultTargetCurrent))

-----------------------------------------------------------------------------
(* Inputs *)

IX_D_UPPER == <<"I","x","(","X","U","1",":","D",")">>
ID_XU1_LOWER == <<"i","d","(","x","u","1",")">>
IX_DR == <<"I","x","(","x","u","1",":","D","R",")">>

\* The trace names a raw file may hold: the voltage trace, spellings of the
\* four candidates, and a name that only starts like a candidate.
TraceNames ==
    {V_G_D, possible_names[1], IX_D_UPPER, possible_names[2], ID_XU1_LOWER,
     possible_names[4], IX_DR}

\* The trace-name lists of a raw file: up to MaxTraces different names, in
\* any order.
NameLists ==
    UNION {{s \in [1..n -> TraceNames] :
               \A p, q \in 1..n : p # q => s[p] # s[q]} : n \in 0..MaxTraces}

ExampleNames == <<IX_D_UPPER, V_G_D>>

\* temps = np.arange(-55, 175.1, 10), and np.arange(-55, 176, 10) in the
\* earlier revision: the same 24 values.
RefSweep == arange(SweepStart, SweepStopTenths, SweepStep)
LegacyRefSweep == arange(SweepStart, LegacySweepStopTenths, SweepStep)

SweepVals == {15, 25, 35}

Sweeps ==
    UNION {[1..n -> SweepVals] : n \in 0..MaxSweepLen}
        \cup {RefSweep, LegacyRefSweep}

Targets == {-100, 20, TargetTemp, 26, 30, 200}

\* The numbers of sweep steps a trace may hold: one, one too few for the
\* 25 degree step (index 8), just enough, and the whole reference sweep.
StepCounts == {1, 8, 9, Len(RefSweep)}

SmallStepCounts == (1..MaxSweepLen) \cup {Len(RefSweep)}

VoltVals == {1, 2, 3}
CurVals == {0, 2, 4}

ExampleVolts == <<1, 2, 3>>
ExampleAmps == <<0, 2, 4>>

IsAscending(w) == \A i \in 1..(Len(w) - 1) : w[i] <= w[i + 1]

\* Voltage and current samples of one step: equally long, the current
\* non-decreasing as in a DC sweep.
WavePairs ==
    UNION {{<<v, c>> : v \in [1..n -> VoltVals],
                       c \in {w \in [1..n -> CurVals] : IsAscending(w)}}
           : n \in 1..MaxSamples}

Currents == {-2000, 10} \cup (0..5)

\* A raw file holding the named traces, the voltage trace with vsteps steps
\* and every other trace with isteps steps.  Step k (from 0) of the voltage
\* trace is vbase and that of a current trace is ibase, each moved by
\* (k + 1) % 3, so that neighbouring steps differ and step 8 holds the base
\* itself; the trace at position p of the file is moved by 10 * (p - 1)
\* more, so that the current traces of one file differ.
MkRaw(names, vsteps, isteps, vbase, ibase) ==
    [p \in DOMAIN names |->
        [name |-> names[p],
         waves |->
            IF names[p] = V_G_D
            THEN [k \in 1..vsteps |->
                     [i \in DOMAIN vbase |-> vbase[i] + (k % 3)]]
            ELSE [k \in 1..isteps |->
                     [i \in DOMAIN ibase |->
                         ibase[i] + (k % 3) + 10 * (p - 1)]]]]

\* The models of src/models.json: a name and the path of a library file.
ModelNames == {"A", "B", "C"}

ModelInfo(n) == [name |-> n, path |-> n]

\* No call of the engine is under way.
EngineIdle ==
    /\ engine_model = ModelInfo("A")
    /\ engine_sim = "raw_file"
    /\ engine_out = EnginePending

\* The state before the calls, for given inputs.
Start(r, lists, ts, tt, tc) ==
    /\ raw = r
    /\ lib_lists_traces = lists
    /\ temps = ts
    /\ target_temp = tt
    /\ target_current = tc
    /\ call = Pending
    /\ legacy_call = Pending
    /\ second_call = Pending

\* Every trace-name list on files of every step count.
InitNames ==
    \E names \in NameLists, n \in StepCounts, lists \in BOOLEAN :
        Start(MkRaw(names, n, n, ExampleVolts, ExampleAmps), lists, RefSweep,
              TargetTemp, DefaultTargetCurrent)

\* Voltage and current traces of every step count, also of different ones.
InitSteps ==
    \E vsteps \in StepCounts, isteps \in StepCounts, tc \in Currents :
        Start(MkRaw(ExampleNames, vsteps, isteps, ExampleVolts, ExampleAmps),
              TRUE, RefSweep, TargetTemp, tc)

\* The same at the engine's target current.
InitStepCounts ==
    \E vsteps \in StepCounts, isteps \in StepCounts :
        Start(MkRaw(ExampleNames, vsteps, isteps, ExampleVolts, ExampleAmps),
              TRUE, RefSweep, TargetTemp, DefaultTargetCurrent)

\* A raw file of the whole sweep holding the voltage trace and a candidate.
ExampleRaw ==
    MkRaw(ExampleNames, Len(RefSweep), Len(RefSweep), ExampleVolts, ExampleAmps)

\* Every waveform pair and target current.
InitWaves ==
    \E vc \in WavePairs, tc \in Currents :
        Start(MkRaw(ExampleNames, Len(RefSweep), Len(RefSweep), vc[1], vc[2]),
              TRUE, RefSweep, TargetTemp, tc)

\* Every sweep-value sequence and target temperature, on files of every
\* small step count and of the reference sweep's.
InitSweeps ==
    \E n \in SmallStepCounts, ts \in Sweeps, tt \in Targets :
        Start(MkRaw(ExampleNames, n, n, ExampleVolts, ExampleAmps), TRUE, ts,
              tt, DefaultTargetCurrent)

-----------------------------------------------------------------------------
(* main.py: RillaMainWindow.display_final_summary *)

\* float('nan').
NaN == <<0, 0>>

\* d.get(key, default).
Get(d, key, default) == IF Has(d, key) THEN d[key] ELSE default

\* n / d rounded to a whole number, a tie going to the even neighbour.
RoundHalfEven(n, d) ==
    LET q == n \div d
        r == n % d
    IN  IF 2 * r < d THEN q
        ELSE IF 2 * r > d THEN q + 1
        ELSE IF q % 2 = 0 THEN q ELSE q + 1

RECURSIVE Pow10(_)
Pow10(k) == IF k = 0 THEN 1 ELSE 10 * Pow10(k - 1)

\* f"{vth:.4f}": "nan" for a NaN, else the value to four decimals, kept
\* as the number of ten-thousandths.
format_4f(v) ==
    IF v[2] = 0 THEN [nan |-> TRUE, e4 |-> 0]
    ELSE [nan |-> FALSE, e4 |-> RoundHalfEven(v[1] * Pow10(Decimals), v[2])]

NoNumber == [nan |-> FALSE, e4 |-> 0]

UnknownError == [text |-> "Unknown error", names |-> <<>>]

\* Lines 289-296: the line of one entry of results_list.
summary_line(result) ==
    IF Has(result, "status") /\ result.status = "success"
    THEN [model |-> Get(result, "model_name", "None"), shows |-> "Vth",
          vth |-> format_4f(
                     Get(Get(result, "results", NoResults),
                         "vth_at_25c_volts", NaN)),
          reason |-> NoMessage]
    ELSE [model |-> Get(result, "model_name", "Unknown"), shows |-> "FAILED",
          vth |-> NoNumber,
          reason |-> Get(result, "error_message", UnknownError)]

\* The results panel after display_final_summary(results_list): cleared,
\* then one label with a line per entry, in the list's order.
display_final_summary(results_list) ==
    [kind |-> "summary",
     lines |-> [i \in DOMAIN results_list |-> summary_line(results_list[i])]]

\* show_initial_message() and clear_results_panel().
InitialMessage == [kind |-> "initial", lines |-> <<>>]

ClearedPanel == [kind |-> "cleared", lines |-> <<>>]

\* The entries a results list may hold: the engine's success and error
\* reports, and such reports with a key missing.
ExampleSuccess(n) ==
    SuccessData(ModelInfo(n),
        result_dict(Return(8, IX_D_UPPER, <<5, 2>>, ExampleVolts, ExampleAmps)))

ExampleError(n) ==
    ErrorData(ModelInfo(n), SimFailure("no_raw_file"))

Without(d, key) == [d EXCEPT !.keys = @ \ {key}]

ResultEntries ==
    UNION {{ExampleSuccess(n),
            Without(ExampleSuccess(n), "results"),
            [ExampleSuccess(n) EXCEPT !.results = NoResults],
            ExampleError(n),
            Without(ExampleError(n), "error_message"),
            Without(ExampleError(n), "status")} : n \in {"A", "B"}}

ResultLists == UNION {[1..n -> ResultEntries] : n \in 0..MaxResults}

-----------------------------------------------------------------------------
(* main.py: Worker and RillaMainWindow                                     *)
(*                                                                         *)
(* A worker and its QThread are one record.  pc is the place the thread    *)
(* is at in run_simulation_task:                                           *)
(*   "ready"        started, before line 42                                *)
(*   "check2"       progress emitted, before line 48                       *)
(*   "engine_done"  the engine call of line 51 ended with out              *)
(*   "finally"      before line 67                                         *)
(*   "done"         finished emitted                                       *)
(* emitted lists the signals the worker has emitted, in order.  A signal   *)
(* reaches the main window through a queued connection: emitting it adds   *)
(* a slot call to main_queue if lines 242-244 connected a slot of the      *)
(* window or of the thread object (which lives in the main thread) to it,  *)
(* and the main thread takes the calls in order.  update_status and        *)
(* thread.quit change the status bar and the thread only, which are not    *)
(* part of the state here, so main_queue holds the calls of the other      *)
(* slots only; their order among themselves is the order of emission.      *)

NewWorker(model_info) ==
    [model_info |-> model_info, is_cancelled |-> FALSE, pc |-> "ready",
     out |-> EnginePending, emitted |-> <<>>]

\* worker.result.connect(self.handle_worker_result), line 242.  No line
\* connects worker.error.
ConnectedSlots(signal) ==
    IF signal = "progress" THEN {"update_status"}
    ELSE IF signal = "result" THEN {"handle_worker_result"}
    ELSE IF signal = "finished" THEN {"thread.quit"}
    ELSE {}

\* The slots that change nothing of the state kept here.
StatusOnlySlots == {"update_status", "thread.quit"}

\* The slot calls that signal.emit(text) adds to main_queue.
QueuedCalls(signal, text) ==
    IF ConnectedSlots(signal) \ StatusOnlySlots = {} THEN <<>>
    ELSE <<[slot |-> CHOOSE sl \in ConnectedSlots(signal) \ StatusOnlySlots : TRUE,
            text |-> text]>>

\* Lines 58-65: the error JSON the worker builds from an exception.
WorkerErrorText(w) == json_dumps(ErrorData(w.model_info, w.out.message))

\* The outcomes of the engine call of a worker: the simulation does not
\* get past its set-up, fails to give a netlist, gives a raw file without
\* a drain-current trace, or gives the example's raw file.
NoCandidateRaw ==
    MkRaw(<<IX_DR, V_G_D>>, Len(RefSweep), Len(RefSweep), ExampleVolts,
          ExampleAmps)

WorkerSims ==
    {<<"mkdir_raises", ExampleRaw>>, <<"no_netlist", ExampleRaw>>,
     <<"raw_file", NoCandidateRaw>>, <<"raw_file", ExampleRaw>>}

\* on_add_to_comparison_clicked without the limit of line 140.
add_to_comparison_unlimited(models, library, selected_model_name) ==
    IF \E i \in DOMAIN models : models[i].name = selected_model_name
    THEN models
    ELSE IF \E i \in DOMAIN library : library[i].name = selected_model_name
    THEN Append(models,
             library[CHOOSE i \in DOMAIN library :
                 /\ library[i].name = selected_model_name
                 /\ \A j \in 1..(i - 1) : library[j].name # selected_model_name])
    ELSE models

\* Lines 140-144: self.comparison_models after the click.
add_to_comparison(models, library, selected_model_name) ==
    IF Len(models) >= MaxCompared THEN models
    ELSE IF \E i \in DOMAIN models : models[i].name = selected_model_name
    THEN models
    ELSE IF \E i \in DOMAIN library : library[i].name = selected_model_name
    THEN Append(models,
             library[CHOOSE i \in DOMAIN library :
                 /\ library[i].name = selected_model_name
                 /\ \A j \in 1..(i - 1) : library[j].name # selected_model_name])
    ELSE models

\* Line 167: [m for m in self.comparison_models if m['name'] != name].
RECURSIVE remove_from_comparison(_, _)
remove_from_comparison(models, name) ==
    IF models = <<>> THEN <<>>
    ELSE IF Head(models).name # name
    THEN <<Head(models)>> \o remove_from_comparison(Tail(models), name)
    ELSE remove_from_comparison(Tail(models), name)

\* Lines 215-224: whether a click on the run button starts the workers.
run_starts_workers(models) == Len(models) # 0 /\ ~(Len(models) > MaxCompared)

\* Lines 131: the library after a model file with that subcircuit name
\* was added.
add_model_library(library, model_name) ==
    IF \E i \in DOMAIN library : library[i].name = model_name
    THEN library
    ELSE Append(library, ModelInfo(model_name))

\* The library src/models.json is loaded with, and the names of the
\* model files the user may add.
LoadedLibrary == <<ModelInfo("A"), ModelInfo("B")>>

UserModelNames == {"B", "C"}

\* The window after __init__.
GuiIdle ==
    /\ config_models = LoadedLibrary
    /\ comparison_models = <<>>
    /\ run_button_enabled = TRUE
    /\ running_sims = 0
    /\ comparison_results = <<>>
    /\ active_workers = <<>>
    /\ main_queue = <<>>
    /\ results_panel = InitialMessage
    /\ window = "open"

-----------------------------------------------------------------------------
(* The state machine *)

\* The program: the sweep values and the target temperature are the code's.
Init == (InitNames \/ InitSteps \/ InitWaves) /\ EngineIdle /\ GuiIdle

\* The selection statement with the sweep values and the target temperature
\* as inputs.
InitSweepInputs == InitSweeps /\ EngineIdle /\ GuiIdle

\* A call of the engine: every model, every simulation outcome and, for a
\* simulation that gets to a raw file, every raw file.
InitEngine ==
    /\ GuiIdle
    /\ engine_out = EnginePending
    /\ \E n \in ModelNames : engine_model = ModelInfo(n)
    /\ \/ /\ engine_sim = "raw_file"
          /\ InitNames \/ InitStepCounts
       \/ /\ engine_sim \in SimOutcomes \ {"raw_file"}
          /\ Start(ExampleRaw, TRUE, RefSweep, TargetTemp, DefaultTargetCurrent)

extract_vth_at_25c ==
    /\ call.kind = "pending"
    /\ call' = Extract(raw, lib_lists_traces, temps, target_temp, target_current)
    /\ raw' = ltr_after_call(raw, call')
    /\ UNCHANGED <<lib_lists_traces, temps, target_temp, target_current,
                   legacy_call, second_call, eng_vars, gui_vars>>

legacy_extract_vth_at_25c ==
    /\ legacy_call.kind = "pending"
    /\ legacy_call' = LegacyExtract(raw, temps, target_temp, target_current)
    /\ UNCHANGED <<raw, lib_lists_traces, temps, target_temp, target_current,
                   call, second_call, eng_vars, gui_vars>>

\* extract_vth_at_25c called again on the same VthExtractor, with the same
\* target current.
extract_vth_at_25c_again ==
    /\ call.kind # "pending"
    /\ second_call.kind = "pending"
    /\ second_call' =
          Extract(raw, lib_lists_traces, temps, target_temp, target_current)
    /\ raw' = ltr_after_call(raw, second_call')
    /\ UNCHANGED <<lib_lists_traces, temps, target_temp, target_current,
                   call, legacy_call, eng_vars, gui_vars>>

\* engine.run_vth_simulation(model_info): the simulation and the extraction.
engine_run_vth_simulation ==
    /\ engine_out.kind = "pending"
    /\ engine_out' =
          run_vth_simulation(engine_model, engine_sim, raw, lib_lists_traces)
    /\ UNCHANGED <<ext_vars, engine_model, engine_sim, gui_vars>>

Next == extract_vth_at_25c \/ legacy_extract_vth_at_25c

NextRepeat == extract_vth_at_25c \/ extract_vth_at_25c_again

Spec == Init /\ [][Next]_vars

SpecSweep == InitSweepInputs /\ [][Next]_vars

\* The program with the extractor called twice.
SpecRepeat == Init /\ [][NextRepeat]_vars

\* The engine, and the extractor on the raw file the engine reads.
NextEngine == engine_run_vth_simulation \/ extract_vth_at_25c

SpecEngine == InitEngine /\ [][NextEngine]_vars

-----------------------------------------------------------------------------
(* The main window and its workers *)

\* The extractor and the engine outside the window's workers are idle.
GuiStart ==
    /\ Start(ExampleRaw, TRUE, RefSweep, TargetTemp, DefaultTargetCurrent)
    /\ EngineIdle

InitGui == GuiStart /\ GuiIdle

on_add_model_library_clicked ==
    /\ window = "open"
    /\ \E n \in UserModelNames :
          config_models' = add_model_library(config_models, n)
    /\ UNCHANGED <<ext_vars, eng_vars, comparison_models, run_button_enabled,
                   running_sims, comparison_results, active_workers,
                   main_queue, results_panel, window>>

on_add_to_comparison_clicked ==
    /\ window = "open"
    /\ \E i \in DOMAIN config_models :
          comparison_models' =
              add_to_comparison(comparison_models, config_models,
                                config_models[i].name)
    /\ UNCHANGED <<ext_vars, eng_vars, config_models, run_button_enabled,
                   running_sims, comparison_results, active_workers,
                   main_queue, results_panel, window>>

on_remove_from_comparison_clicked ==
    /\ window = "open"
    /\ \E i \in DOMAIN comparison_models :
          comparison_models' =
              remove_from_comparison(comparison_models,
                                     comparison_models[i].name)
    /\ UNCHANGED <<ext_vars, eng_vars, config_models, run_button_enabled,
                   running_sims, comparison_results, active_workers,
                   main_queue, results_panel, window>>

\* A click on the run button; a disabled button gives no click.
on_run_comparison_clicked ==
    /\ window = "open"
    /\ run_button_enabled
    /\ IF run_starts_workers(comparison_models)
       THEN /\ run_button_enabled' = FALSE
            /\ results_panel' = ClearedPanel
            /\ running_sims' = Len(comparison_models)
            /\ comparison_results' = <<>>
            /\ active_workers' =
                  [i \in DOMAIN comparison_models |->
                      NewWorker(comparison_models[i])]
       ELSE UNCHANGED <<run_button_enabled, results_panel, running_sims,
                        comparison_results, active_workers>>
    /\ UNCHANGED <<ext_vars, eng_vars, config_models, comparison_models,
                   main_queue, window>>

\* A step of worker i leaves the window's own state alone.
WorkerFrame ==
    UNCHANGED <<ext_vars, eng_vars, config_models, comparison_models,
                run_button_enabled, running_sims, comparison_results,
                results_panel, window>>

\* The check of line 42 with its return outside the try statement: the
\* task of a cancelled worker is over without the finally clause.
worker_begin_return_without_finally(i) ==
    /\ window # "closed"
    /\ active_workers[i].pc = "ready"
    /\ LET w == active_workers[i] IN
       IF w.is_cancelled
       THEN /\ active_workers' = [active_workers EXCEPT ![i].pc = "done"]
            /\ UNCHANGED main_queue
       ELSE /\ active_workers' =
                  [active_workers EXCEPT ![i].pc = "check2",
                      ![i].emitted = Append(@, "progress")]
            /\ main_queue' = main_queue \o QueuedCalls("progress", NoText)
    /\ WorkerFrame

\* Lines 42-45.
worker_begin(i) ==
    /\ window # "closed"
    /\ active_workers[i].pc = "ready"
    /\ LET w == active_workers[i] IN
       IF w.is_cancelled
       THEN /\ active_workers' = [active_workers EXCEPT ![i].pc = "finally"]
            /\ UNCHANGED main_queue
       ELSE /\ active_workers' =
                  [active_workers EXCEPT ![i].pc = "check2",
                      ![i].emitted = Append(@, "progress")]
            /\ main_queue' = main_queue \o QueuedCalls("progress", NoText)
    /\ WorkerFrame

\* Lines 48-51, and the except clause catching what the engine raises.
worker_call_engine(i) ==
    /\ window # "closed"
    /\ active_workers[i].pc = "check2"
    /\ LET w == active_workers[i] IN
       IF w.is_cancelled
       THEN active_workers' = [active_workers EXCEPT ![i].pc = "finally"]
       ELSE \E sim \in WorkerSims :
               active_workers' =
                  [active_workers EXCEPT ![i].pc = "engine_done",
                      ![i].out = run_vth_simulation(w.model_info, sim[1],
                                                    sim[2], TRUE)]
    /\ UNCHANGED main_queue
    /\ WorkerFrame

\* Lines 53-54 after a return of the engine, lines 56-65 after a raise.
worker_emit_outcome(i) ==
    /\ window # "closed"
    /\ active_workers[i].pc = "engine_done"
    /\ LET w == active_workers[i]
           signal == IF w.out.kind = "return" THEN "result" ELSE "error"
           text == IF w.out.kind = "return" THEN w.out.text
                   ELSE WorkerErrorText(w)
       IN
       IF w.is_cancelled
       THEN /\ active_workers' = [active_workers EXCEPT ![i].pc = "finally"]
            /\ UNCHANGED main_queue
       ELSE /\ active_workers' =
                  [active_workers EXCEPT ![i].pc = "finally",
                      ![i].emitted = Append(@, signal)]
            /\ main_queue' = main_queue \o QueuedCalls(signal, text)
    /\ WorkerFrame

\* Line 67.
worker_finally(i) ==
    /\ window # "closed"
    /\ active_workers[i].pc = "finally"
    /\ active_workers' =
          [active_workers EXCEPT ![i].pc = "done",
              ![i].emitted = Append(@, "finished")]
    /\ main_queue' = main_queue \o QueuedCalls("finished", NoText)
    /\ WorkerFrame

\* The task of the i-th worker of the run, if the run has as many.
run_simulation_task(i) ==
    /\ i \in DOMAIN active_workers
    /\ \/ worker_begin(i)
       \/ worker_call_engine(i)
       \/ worker_emit_outcome(i)
       \/ worker_finally(i)

\* Lines 267-283 (and 249-264) on the JSON text of a queued call.
HandleOutcome(json_str) ==
    /\ running_sims' = running_sims - 1
    /\ comparison_results' =
          IF IsJson(json_str)
          THEN Append(comparison_results, json_loads(json_str))
          ELSE comparison_results
    /\ IF running_sims' = 0
       THEN /\ results_panel' = display_final_summary(comparison_results')
            /\ run_button_enabled' = TRUE
       ELSE UNCHANGED <<results_panel, run_button_enabled>>
    /\ UNCHANGED <<ext_vars, eng_vars, config_models, comparison_models,
                   active_workers, window>>

handle_worker_result ==
    /\ window = "open"
    /\ main_queue # <<>>
    /\ Head(main_queue).slot = "handle_worker_result"
    /\ main_queue' = Tail(main_queue)
    /\ HandleOutcome(Head(main_queue).text)

\* The slot no signal is connected to: no call of it is ever queued, and
\* it is no step of the window.
handle_worker_error ==
    /\ window = "open"
    /\ main_queue # <<>>
    /\ Head(main_queue).slot = "handle_worker_error"
    /\ main_queue' = Tail(main_queue)
    /\ HandleOutcome(Head(main_queue).text)

\* closeEvent, lines 194-195: every active worker is cancelled; the main
\* thread then waits for the threads and takes no queued call.
closeEvent_cancel ==
    /\ window = "open"
    /\ active_workers' =
          [i \in DOMAIN active_workers |->
              [active_workers[i] EXCEPT !.is_cancelled = TRUE]]
    /\ window' = "closing"
    /\ UNCHANGED <<ext_vars, eng_vars, config_models, comparison_models,
                   run_button_enabled, running_sims, comparison_results,
                   main_queue, results_panel>>

\* closeEvent, lines 198-212: each thread has finished, or the wait timed
\* out and the thread was terminated where it was; the lists are cleared.
closeEvent_close ==
    /\ window = "closing"
    /\ active_workers' = <<>>
    /\ window' = "closed"
    /\ UNCHANGED <<ext_vars, eng_vars, config_models, comparison_models,
                   run_button_enabled, running_sims, comparison_results,
                   main_queue, results_panel>>

NextGui ==
    \/ on_add_model_library_clicked
    \/ on_add_to_comparison_clicked
    \/ on_remove_from_comparison_clicked
    \/ on_run_comparison_clicked
    \/ \E i \in 1..MaxCompared : run_simulation_task(i)
    \/ handle_worker_result
    \/ closeEvent_cancel
    \/ closeEvent_close

SpecGui == InitGui /\ [][NextGui]_vars

\* The scheduling: a started thread goes on running its task, and the main
\* thread's event loop goes on taking queued calls.
Fairness ==
    /\ \A i \in 1..MaxCompared : WF_vars(run_simulation_task(i))
    /\ WF_vars(handle_worker_result)

SpecGuiFair == SpecGui /\ Fairness

\* display_final_summary called on a results list given as an input.
InitSummary ==
    /\ GuiStart
    /\ \E results_list \in ResultLists :
          /\ comparison_results = results_list
          /\ running_sims = 0
    /\ config_models = LoadedLibrary
    /\ comparison_models = <<>>
    /\ run_button_enabled = TRUE
    /\ active_workers = <<>>
    /\ main_queue = <<>>
    /\ results_panel = InitialMessage
    /\ window = "open"

display_final_summary_called ==
    /\ results_panel.kind = "initial"
    /\ results_panel' = display_final_summary(comparison_results)
    /\ UNCHANGED <<ext_vars, eng_vars, config_models, comparison_models,
                   run_button_enabled, running_sims, comparison_results,
                   active_workers, main_queue, window>>

NextSummary == display_final_summary_called

SpecSummary == InitSummary /\ [][NextSummary]_vars

-----------------------------------------------------------------------------
(* What the properties below read from the state *)

\* The waveform the raw file holds for the named trace at step k (from 0).
WaveformOf(name, k) ==
    raw[CHOOSE p \in DOMAIN raw : raw[p].name = name].waves[k + 1]

AvailableNames == {raw[p].name : p \in DOMAIN raw}

\* The fraction v is the piecewise-linear lookup of t in the samples
\* (x[i], y[i]): clamped to the first and last y outside x's range, and on
\* the segment between two bracketing samples inside it.
IsClampedInterpolation(v, t, x, y) ==
    LET n == Len(x) IN
    /\ v[2] > 0
    /\ t < x[1] => v = <<y[1], 1>>
    /\ t > x[n] => v = <<y[n], 1>>
    /\ (x[1] <= t /\ t <= x[n]) =>
          \/ n = 1 /\ v = <<y[1], 1>>
          \/ \E i \in 1..(n - 1) :
                /\ x[i] <= t /\ t <= x[i + 1]
                /\ IF x[i] = x[i + 1]
                   THEN v \in {<<y[i], 1>>, <<y[i + 1], 1>>}
                   ELSE v[1] * (x[i + 1] - x[i]) =
                        v[2] * (y[i] * (x[i + 1] - x[i])
                                + (y[i + 1] - y[i]) * (t - x[i]))

\* k (from 0) is the first index of ts nearest to t.
IsFirstNearest(k, ts, t) ==
    /\ k + 1 \in DOMAIN ts
    /\ \A j \in DOMAIN ts : Abs(ts[k + 1] - t) <= Abs(ts[j] - t)
    /\ \A j \in 1..k : Abs(ts[j] - t) > Abs(ts[k + 1] - t)

\* The names are equal but for the case of their letters.
EqualsIgnoringCase(a, b) == lower(a) = lower(b)

\* Some available name is candidate c up to case.
HasCandidate(c) ==
    \E nm \in AvailableNames : EqualsIgnoringCase(nm, possible_names[c])

NoCandidate == \A c \in DOMAIN possible_names : ~HasCandidate(c)

EarliestCandidate ==
    CHOOSE c \in DOMAIN possible_names :
        HasCandidate(c) /\ \A d \in 1..(c - 1) : ~HasCandidate(d)

\* The named trace of the file holds no waveform at step k (from 0).
LacksWave(name, k) ==
    k + 1 \notin DOMAIN raw[CHOOSE p \in DOMAIN raw : raw[p].name = name].waves

LookupOrRetrievalFails ==
    \/ V_G_D \notin AvailableNames
    \/ NoCandidate
    \/ LacksWave(V_G_D, call.step_idx)
    \/ LacksWave(call.id_trace, call.step_idx)

\* The extraction at step k (from 0) fails in a lookup or a retrieval: the
\* voltage trace or every candidate is missing, or the voltage trace or a
\* trace that equals the earliest candidate up to case lacks step k.
LookupOrRetrievalFailsAt(k) ==
    \/ V_G_D \notin AvailableNames
    \/ NoCandidate
    \/ LacksWave(V_G_D, k)
    \/ \E nm \in AvailableNames :
          /\ EqualsIgnoringCase(nm, possible_names[EarliestCandidate])
          /\ LacksWave(nm, k)

LegacyLookupOrRetrievalFails ==
    \/ V_G_D \notin AvailableNames
    \/ LEGACY_ID_NAME \notin AvailableNames
    \/ LacksWave(V_G_D, legacy_call.step_idx)
    \/ LacksWave(LEGACY_ID_NAME, legacy_call.step_idx)

\* -55, -45, ..., 175.
ReferenceSweep == [k \in 1..24 |-> -55 + 10 * (k - 1)]

-----------------------------------------------------------------------------
(* C1: the threshold either extractor returns is the clamped linear        *)
(* interpolation of the target current in the selected step's current      *)
(* waveform (x, ascending) and voltage waveform (y): y[first] below        *)
(* x[first], y[last] above x[last], on the bracketing segment otherwise.   *)
(* For x = 0, 1, 2 mA and y = 1, 2, 3 V it is 1 at -1 A, 3 at 5 mA and     *)
(* 5/2 at 1.5 mA.                                                          *)
C1_ThresholdIsClampedInterpolation ==
    /\ call.kind = "return" =>
          /\ IsClampedInterpolation(call.vth, target_current,
                 WaveformOf(call.id_trace, call.step_idx),
                 WaveformOf(V_G_D, call.step_idx))
          /\ (/\ WaveformOf(call.id_trace, call.step_idx) = ExampleAmps
              /\ WaveformOf(V_G_D, call.step_idx) = ExampleVolts) =>
                 /\ target_current = -2000 => call.vth = <<1, 1>>
                 /\ target_current = 10 => call.vth = <<3, 1>>
                 /\ target_current = 3 => call.vth = <<5, 2>>
    /\ (legacy_call.kind = "return" /\ ~legacy_call.is_none) =>
          IsClampedInterpolation(legacy_call.vth, target_current,
              WaveformOf(LEGACY_ID_NAME, legacy_call.step_idx),
              WaveformOf(V_G_D, legacy_call.step_idx))

\* The example's midpoint: 1.5 mA between the samples at 1 mA and 2 mA.
C1_Witness ==
    /\ call.kind = "return"
    /\ WaveformOf(call.id_trace, call.step_idx) = ExampleAmps
    /\ WaveformOf(V_G_D, call.step_idx) = ExampleVolts
    /\ target_current = 3
    /\ call.vth = <<5, 2>>

-----------------------------------------------------------------------------
(* C2: for a non-empty sweep-value sequence the selected step index is a   *)
(* minimizer of |temps[i] - target_temp| and the lowest such index; a      *)
(* target at or beyond the sweep's smallest or largest value selects a     *)
(* step holding that value, the first step of an ascending sweep for a     *)
(* target below it.                                                        *)
C2_NearestStepIsFirstMinimizer ==
    (call.kind # "pending" /\ Len(temps) > 0) =>
        /\ IsFirstNearest(call.step_idx, temps, target_temp)
        /\ (\A j \in DOMAIN temps : target_temp <= temps[j]) =>
               \A j \in DOMAIN temps : temps[call.step_idx + 1] <= temps[j]
        /\ (\A j \in DOMAIN temps : target_temp >= temps[j]) =>
               \A j \in DOMAIN temps : temps[call.step_idx + 1] >= temps[j]
        /\ (IsAscending(temps) /\ target_temp < temps[1]) => call.step_idx = 0

\* A tie: 20 is as far from 15 (index 0) as from 25 (index 1).
C2_Witness ==
    /\ call.kind # "pending"
    /\ temps = <<15, 25>>
    /\ target_temp = 20
    /\ call.step_idx = 0

-----------------------------------------------------------------------------
(* C3: the candidates are tried in the order Ix(xu1:D), Ix(xu1:DRAIN),     *)
(* Id(XU1), Id(M1); the trace resolved is an available trace equal, up to  *)
(* case, to the earliest candidate that any available name equals up to    *)
(* case, wherever the names stand in the file.                             *)
C3_EarliestCandidateWins ==
    /\ possible_names =
          << <<"I","x","(","x","u","1",":","D",")">>,
             <<"I","x","(","x","u","1",":","D","R","A","I","N",")">>,
             <<"I","d","(","X","U","1",")">>,
             <<"I","d","(","M","1",")">> >>
    /\ (call.kind # "pending" /\ V_G_D \in AvailableNames /\ ~NoCandidate) =>
          /\ call.id_trace \in AvailableNames
          /\ EqualsIgnoringCase(call.id_trace, possible_names[EarliestCandidate])
          /\ get_trace_names(raw) = <<IX_D_UPPER, V_G_D>> =>
                call.id_trace = IX_D_UPPER /\ EarliestCandidate = 1

\* A file that lists a match of candidate 4 before a match of candidate 1.
C3_Witness ==
    /\ call.kind # "pending"
    /\ get_trace_names(raw) = <<possible_names[4], V_G_D, IX_D_UPPER>>
    /\ call.id_trace = IX_D_UPPER

-----------------------------------------------------------------------------
-----------------------------------------------------------------------------
(* C5: whenever a trace lookup or a waveform retrieval fails, the          *)
(* extractor raises; it never returns None in place of a result.  This     *)
(* is stated of both revisions of extract_vth_at_25c.                      *)
C5_FailureIsNeverASentinel ==
    /\ (call.kind # "pending" /\ LookupOrRetrievalFails) =>
          call.kind = "raise" /\ ~call.is_none
    /\ (legacy_call.kind # "pending" /\ LegacyLookupOrRetrievalFails) =>
          legacy_call.kind = "raise" /\ ~legacy_call.is_none

-----------------------------------------------------------------------------
-----------------------------------------------------------------------------
(* C7: the code's sweep is -55, -45, ..., 175 (24 values); for it the      *)
(* selected step index is 8 for target temperature 25 and for 26.          *)
C7_ReferenceSweepSelectsStep8 ==
    /\ RefSweep = ReferenceSweep
    /\ LegacyRefSweep = ReferenceSweep
    /\ ReferenceSweep[9] = 25
    /\ \A c \in {call, legacy_call} :
          (c.kind # "pending" /\ temps = ReferenceSweep /\ target_temp \in {25, 26})
              => c.step_idx = 8

C7_Witness ==
    /\ call.kind # "pending"
    /\ temps = ReferenceSweep
    /\ target_temp = 26
    /\ call.step_idx = 8

-----------------------------------------------------------------------------
(* C8: when the file does not hold V(v_g_d), the call fails with the       *)
(* error of the voltage-trace lookup, naming V(v_g_d); this is the error   *)
(* also when no drain-current candidate is available either.               *)
C8_MissingVoltageTraceIsReportedFirst ==
    (call.kind # "pending" /\ V_G_D \notin AvailableNames) =>
        /\ call.kind = "raise"
        /\ call.site = "get_trace"
        /\ call.requested = <<V_G_D>>
        /\ call.id_trace = <<>>

\* Neither the voltage trace nor any candidate is in the file.
C8_Witness ==
    /\ call.kind = "raise"
    /\ get_trace_names(raw) = <<IX_DR>>
    /\ NoCandidate
    /\ call.site = "get_trace"

-----------------------------------------------------------------------------
(* C9: when both traces are found and either of them holds no waveform at  *)
(* the selected step index, the call fails with the error of get_wave,     *)
(* which is not an error of a trace lookup, and returns no result.         *)
C9_MissingWaveformFails ==
    (/\ call.kind # "pending"
     /\ V_G_D \in AvailableNames /\ ~NoCandidate
     /\ LacksWave(V_G_D, call.step_idx) \/ LacksWave(call.id_trace, call.step_idx)) =>
        /\ call.kind = "raise"
        /\ call.site = "get_wave"
        /\ call.site \notin {"get_trace", "_find_drain_current_trace"}
        /\ ~call.is_none /\ call.vth = NoFrac
        /\ call.vgs_volts = <<>> /\ call.id_amps = <<>>

\* The voltage trace holds the step, the current trace is one step short.
C9_Witness ==
    /\ call.kind = "raise"
    /\ call.site = "get_wave"
    /\ call.step_idx = 8
    /\ ~LacksWave(V_G_D, 8)
    /\ call.id_trace # <<>> /\ LacksWave(call.id_trace, 8)
    /\ ~LacksWave(call.id_trace, 7)

-----------------------------------------------------------------------------
(* C10: in every successful extraction the returned voltage and current    *)
(* samples are the file's waveforms of the voltage trace and of the        *)
(* resolved current trace at the selected step (the first step nearest the *)
(* target temperature): as long as each other and as those waveforms,      *)
(* with the same values in the same order.                                 *)
C10_RawDataRoundTrip ==
    call.kind = "return" =>
        LET v == WaveformOf(V_G_D, call.step_idx)
            c == WaveformOf(call.id_trace, call.step_idx)
        IN  /\ IsFirstNearest(call.step_idx, temps, target_temp)
            /\ Len(call.vgs_volts) = Len(call.id_amps)
            /\ Len(call.vgs_volts) = Len(v) /\ Len(call.id_amps) = Len(c)
            /\ \A i \in DOMAIN v : call.vgs_volts[i] = v[i]
            /\ \A i \in DOMAIN c : call.id_amps[i] = c[i]

\* A success whose step differs from the file's first step in both traces.
C10_Witness ==
    /\ call.kind = "return"
    /\ Len(call.vgs_volts) = MaxSamples
    /\ call.step_idx > 0
    /\ call.vgs_volts # WaveformOf(V_G_D, 0)
    /\ call.id_amps # WaveformOf(call.id_trace, 0)

\* A step that ends the second call ends it as the first call ended.
SecondCallRepeats ==
    second_call' # second_call =>
        /\ second_call' = call
        /\ second_call'.kind \in {"return", "raise"}

\* A step that ends a call of extract_vth_at_25c changes nothing a call reads.
CallsOnlyRead ==
    (call' # call \/ second_call' # second_call) =>
        /\ raw' = raw
        /\ lib_lists_traces' = lib_lists_traces
        /\ temps' = temps /\ target_temp' = target_temp
        /\ target_current' = target_current

-----------------------------------------------------------------------------
-----------------------------------------------------------------------------
\* The report the engine returned, read back.
EngineReport == json_loads(engine_out.text)

\* The simulation got to a raw file: netlist creation and the run succeeded.
SimulationSucceeded == engine_sim = "raw_file"

-----------------------------------------------------------------------------
\* Entry i of the results list carries a threshold an extraction produced:
\* a number under results.vth_at_25c_volts.
CarriesThreshold(i) ==
    /\ Has(comparison_results[i], "results")
    /\ Has(comparison_results[i].results, "vth_at_25c_volts")
    /\ comparison_results[i].results.vth_at_25c_volts[2] > 0

IsSuccess(i) ==
    /\ Has(comparison_results[i], "status")
    /\ comparison_results[i].status = "success"

-----------------------------------------------------------------------------
\* How often the signal stands in the sequence of emitted signals.
Count(emitted, signal) ==
    Cardinality({k \in DOMAIN emitted : emitted[k] = signal})

\* The signals a worker has emitted follow the protocol, at every place of
\* its task: finished at most once, after everything else, and emitted
\* exactly when the task is over; result and error at most once and never
\* both; and a task that returned before emitting progress (the return of
\* line 43) did not call the engine and emitted neither result nor error.
FollowsProtocol(w) ==
    /\ Count(w.emitted, "finished") = (IF w.pc = "done" THEN 1 ELSE 0)
    /\ w.pc = "done" => w.emitted[Len(w.emitted)] = "finished"
    /\ Count(w.emitted, "result") + Count(w.emitted, "error") <= 1
    /\ (w.pc # "ready" /\ Count(w.emitted, "progress") = 0) =>
          /\ w.out = EnginePending
          /\ Count(w.emitted, "result") + Count(w.emitted, "error") = 0

\* The step replaces the workers (a run starts) or drops them (the window
\* closes).
WorkersReplaced ==
    \/ run_button_enabled /\ ~run_button_enabled'
    \/ window' = "closed"

\* A step of a task that was cancelled before it started takes the return
\* of line 43, and a task that is over emits nothing more.
ProtocolStep ==
    /\ \A i \in DOMAIN active_workers' : FollowsProtocol(active_workers'[i])
    /\ ~WorkersReplaced =>
          \A i \in DOMAIN active_workers :
             LET w == active_workers[i]
                 v == active_workers'[i]
             IN  /\ (w.is_cancelled /\ w.pc = "ready" /\ v.pc # "ready") =>
                        /\ v.pc = "finally"
                        /\ v.emitted = <<>> /\ v.out = EnginePending
                 /\ w.pc = "done" => v.pc = "done" /\ v.emitted = w.emitted

(* C15: in every execution of Worker.run_simulation_task that runs to its  *)
(* end (normal, engine exception, cancelled at any point) finished is      *)
(* emitted exactly once and last; at most one of result and error is       *)
(* emitted; and a task that starts after cancel() was called does not      *)
(* invoke the engine and emits neither result nor error.                   *)
C15_WorkerSignalProtocol == [][ProtocolStep]_vars

\* A task cancelled during the engine call: the engine returned a report,
\* the result was not emitted, finished was.
C15_Witness ==
    \E i \in DOMAIN active_workers :
        /\ active_workers[i].is_cancelled
        /\ active_workers[i].out.kind = "return"
        /\ active_workers[i].emitted = <<"progress", "finished">>
        /\ active_workers[i].pc = "done"

-----------------------------------------------------------------------------
\* A run is under way in the open window: some outcome is not yet handled.
RunInProgress == window = "open" /\ running_sims > 0

\* The run is over: the summary is displayed and the button enabled again.
RunCompleted ==
    /\ running_sims = 0
    /\ results_panel.kind = "summary"
    /\ run_button_enabled

(* C14: after on_run_comparison_clicked started workers for 1 or 2 models, *)
(* and unless the window is closed, every worker's outcome (a result, or   *)
(* an error raised inside run_simulation_task) is eventually handled:      *)
(* running_sims reaches 0, the summary is displayed and the run button is  *)
(* enabled again.                                                          *)
C14_RunEventuallyCompletes ==
    RunInProgress ~> (RunCompleted \/ window # "open")

-----------------------------------------------------------------------------
\* The models the run was started with, and the outcomes handled so far:
\* the results emitted that are no longer waiting in the queue.
StartedModels == [i \in DOMAIN active_workers |-> active_workers[i].model_info]

EmittedResults ==
    Cardinality({i \in DOMAIN active_workers :
                    Count(active_workers[i].emitted, "result") = 1})

HandledOutcomes == EmittedResults - Len(main_queue)

\* The accounting of the run the workers belong to.
Accounting ==
    active_workers # <<>> =>
        /\ Len(StartedModels) \in 1..MaxCompared
        /\ running_sims \in 0..Len(StartedModels)
        /\ running_sims = Len(StartedModels) - HandledOutcomes
        /\ Len(comparison_results) = HandledOutcomes
        /\ run_button_enabled <=> running_sims = 0
        /\ results_panel.kind = (IF running_sims = 0 THEN "summary" ELSE "cleared")
        /\ results_panel.kind = "summary" =>
              /\ results_panel = display_final_summary(comparison_results)
              /\ Len(comparison_results) = Len(StartedModels)
              /\ \A i \in DOMAIN StartedModels :
                    Cardinality({k \in DOMAIN comparison_results :
                        comparison_results[k].model_name = StartedModels[i].name}) = 1

\* A step keeps the accounting; the summary is displayed only by the step
\* that takes running_sims from 1 to 0, on a panel cleared at the start of
\* the run; and a run starts only when none is in progress.
AccountingStep ==
    /\ Accounting'
    /\ results_panel'.kind = "summary" /\ results_panel' # results_panel =>
          /\ results_panel.kind = "cleared"
          /\ running_sims = 1 /\ running_sims' = 0
    /\ ((window' # "closed" /\ StartedModels' # StartedModels)
            \/ running_sims' > running_sims
            \/ (run_button_enabled /\ ~run_button_enabled')) =>
          /\ running_sims = 0 /\ run_button_enabled /\ main_queue = <<>>
          /\ \A i \in DOMAIN active_workers :
                Count(active_workers[i].emitted, "result") = 1
          /\ running_sims' = Len(StartedModels') /\ ~run_button_enabled'
          /\ comparison_results' = <<>>
          /\ \A i \in DOMAIN active_workers' : active_workers'[i].pc = "ready"
    /\ running_sims' < running_sims => running_sims' = running_sims - 1

\* Every worker of the run has finished its task and the main thread has
\* taken every queued call: nothing of the run is left to happen.
RunOver ==
    /\ window = "open"
    /\ active_workers # <<>>
    /\ \A i \in DOMAIN active_workers : active_workers[i].pc = "done"
    /\ main_queue = <<>>

\* By the end of a run the summary has been displayed, with one entry per
\* started model.
SummaryByTheEnd ==
    RunOver =>
        /\ running_sims = 0
        /\ results_panel.kind = "summary"
        /\ Len(comparison_results) = Len(StartedModels)

(* C16: during a run started with n models (n in {1, 2}) running_sims      *)
(* stays within 0..n and equals n minus the number of worker outcomes      *)
(* handled so far, under every interleaving of the workers; the summary    *)
(* is displayed exactly once per run (it has been displayed by the end of  *)
(* the run, and only by the step that takes running_sims to 0), with       *)
(* comparison_results holding exactly one entry per started model; and     *)
(* the run button is disabled from the start of the run until then, so     *)
(* that no second run starts while one is in progress.                     *)
C16_PerRunAccounting == [][AccountingStep /\ SummaryByTheEnd']_vars

-----------------------------------------------------------------------------
\* The comparison list holds at most two models, no two of one name, each
\* an entry of the library.
ListIsValid ==
    /\ Len(comparison_models) <= 2
    /\ \A i, j \in DOMAIN comparison_models :
          i # j => comparison_models[i].name # comparison_models[j].name
    /\ \A i \in DOMAIN comparison_models :
          \E k \in DOMAIN config_models :
             config_models[k] = comparison_models[i]

\* A step that lengthens the list appends one library model of a new name
\* to a list of fewer than two; a step that starts workers starts one per
\* listed model, for a list of one or two.
ListStep ==
    /\ ListIsValid'
    /\ Len(comparison_models') > Len(comparison_models) =>
          /\ Len(comparison_models) < 2
          /\ Len(comparison_models') = Len(comparison_models) + 1
          /\ \A i \in DOMAIN comparison_models :
                /\ comparison_models'[i] = comparison_models[i]
                /\ comparison_models[i].name #
                      comparison_models'[Len(comparison_models')].name
    /\ (window' # "closed" /\ StartedModels' # StartedModels) =>
          /\ Len(comparison_models) \in 1..2
          /\ StartedModels' = comparison_models
    /\ ~run_starts_workers(<<>>)
    /\ ~run_starts_workers(<<ModelInfo("A"), ModelInfo("B"), ModelInfo("C")>>)

(* C17: after any sequence of adds and removes comparison_models holds at  *)
(* most two models, no two with the same name, each taken from the         *)
(* library; an add that would exceed two or duplicate a name leaves the    *)
(* list unchanged; and on_run_comparison_clicked starts no worker when     *)
(* the list is empty or has more than two entries.                         *)
C17_ComparisonListInvariant == [][ListStep]_vars

\* A full list while the library holds a third model to add.
C17_Witness ==
    /\ Len(comparison_models) = 2
    /\ Len(config_models) = 3
    /\ comparison_models[1].name = "C"

====
